---- MODULE Spec2Model ----
(***************************************************************************)
(* Model of nodejs/fix-images.js: the header sniffer detectImageFormat,    *)
(* the directory processor processDirectory (batches of per-file async     *)
(* operations over one listing) and main.                                  *)
(*                                                                         *)
(* A file name is the sequence of its dot-separated segments:              *)
(*   "c.jpg" = <<"c","jpg">>, "c.b.jpg" = <<"c","b","jpg">>,               *)
(*   ".jpg" = <<"","jpg">>, "s1" = <<"s1">>.                               *)
(* A byte buffer is a sequence of numbers 0..255; buffer[i] of the source  *)
(* (0-based) is At(buffer, i).                                             *)
(* Every await of a per-file operation is one step: the file system call   *)
(* together with the synchronous code that runs until the next await.      *)
(***************************************************************************)
EXTENDS Integers, Sequences, FiniteSets, TLC

VARIABLES
    fs,        \* the directory: name -> entry (Absent when no such entry)
    dir0,      \* the directory as the readdir of the current run found it
    listable,  \* whether readdir(dirPath) succeeds
    run,       \* number of the current invocation of main
    pc,        \* position of main/processDirectory
    files,     \* the listing returned by readdir
    i,         \* loop variable of the batch loop
    taskpc,    \* position of the per-file operation of each listing entry
    fmt,       \* actualFormat of each per-file operation
    stats,     \* { processed, renamed, errors }
    contrib,   \* what each per-file operation has added to stats
    log,       \* the console line each per-file operation has emitted
    exitCode,  \* exit code of the process, -1 while it runs
    header,    \* sniffer check: the buffer read so far
    tag        \* sniffer check: result of the detection on header

vars == <<fs, dir0, listable, run, pc, files, i, taskpc, fmt, stats, contrib, log,
          exitCode, header, tag>>

progVars == <<fs, dir0, listable, run, pc, files, i, taskpc, fmt, stats, contrib,
              log, exitCode>>

sniffVars == <<header, tag>>

(***************************************************************************)
(* Bounds of the model.                                                    *)
(***************************************************************************)
MaxFiles == 2    \* entries of a generated directory
MaxRuns == 2     \* successive invocations of main on the same directory
MaxHead == 4     \* leading header bytes drawn freely from HeadBytes

(***************************************************************************)
(* Byte buffers.                                                           *)
(***************************************************************************)
Undefined == -1

\* buffer[idx] of a Node Buffer: undefined past the end.
At(buffer, idx) == IF idx < Len(buffer) THEN buffer[idx + 1] ELSE Undefined

\* Decoding one byte with the 'ascii' encoding: the highest bit is unset.
AsciiChar(byte) == byte % 128

\* buffer.toString('ascii', start, end): the decoded bytes start..end-1,
\* clamped to the buffer's length.
toStringAscii(buffer, start, end) ==
    LET last == IF end < Len(buffer) THEN end ELSE Len(buffer)
    IN  [j \in 1..(IF last > start THEN last - start ELSE 0) |->
            AsciiChar(buffer[start + j])]

RIFF == <<82, 73, 70, 70>>
WEBP == <<87, 69, 66, 80>>

null == "null"

\* The signature checks of detectImageFormat on the buffer it has read.
detectBuffer(buffer) ==
    IF At(buffer, 0) = 71 /\ At(buffer, 1) = 73 /\ At(buffer, 2) = 70
    THEN "gif"
    ELSE IF At(buffer, 0) = 255 /\ At(buffer, 1) = 216 /\ At(buffer, 2) = 255
    THEN "jpg"
    ELSE IF At(buffer, 0) = 137 /\ At(buffer, 1) = 80 /\ At(buffer, 2) = 78
            /\ At(buffer, 3) = 71
    THEN "png"
    ELSE IF toStringAscii(buffer, 0, 4) = RIFF
            /\ toStringAscii(buffer, 8, 12) = WEBP
    THEN "webp"
    ELSE IF At(buffer, 0) = 66 /\ At(buffer, 1) = 77
    THEN "bmp"
    ELSE IF \/ At(buffer, 0) = 73 /\ At(buffer, 1) = 73 /\ At(buffer, 2) = 42
               /\ At(buffer, 3) = 0
            \/ At(buffer, 0) = 77 /\ At(buffer, 1) = 77 /\ At(buffer, 2) = 0
               /\ At(buffer, 3) = 42
    THEN "tiff"
    ELSE null

(***************************************************************************)
(* File names.                                                             *)
(***************************************************************************)
\* String.prototype.toLowerCase on the segments used as extensions.
toLowerCase(s) ==
    CASE s = "JPG" -> "jpg"
      [] s = "PNG" -> "png"
      [] OTHER -> s

\* path.extname(file) without its dot: the text after the last dot, empty
\* when there is no dot or the only dot is the first character.
extnameNoDot(file) ==
    IF Len(file) >= 2 /\ ~(Len(file) = 2 /\ file[1] = "")
    THEN file[Len(file)]
    ELSE ""

getFileExtension(file) == toLowerCase(extnameNoDot(file))

imageExtensions == {"jpg", "jpeg", "gif", "png", "webp", "bmp", "tiff"}

Front(s) == SubSeq(s, 1, Len(s) - 1)

\* Variant of the replacement whose pattern starts at the first dot.
replaceExtFromFirstDot(file, actualFormat) ==
    IF Len(file) >= 2 /\ file[Len(file)] # ""
    THEN <<file[1], actualFormat>>
    ELSE file

\* file.replace(/\.[^.]+$/, `.${actualFormat}`): the last dot and the
\* non-empty dot-free text after it are replaced; no match, no change.
replaceExt(file, actualFormat) ==
    IF Len(file) >= 2 /\ file[Len(file)] # ""
    THEN Front(file) \o <<actualFormat>>
    ELSE file

\* Variant of the decision without the jpeg/jpg exception.
needsRenameStrict(currentExtension, actualFormat) ==
    currentExtension # actualFormat

needsRename(currentExtension, actualFormat) ==
    /\ currentExtension # actualFormat
    /\ ~(currentExtension = "jpeg" /\ actualFormat = "jpg")
    /\ ~(currentExtension = "jpg" /\ actualFormat = "jpg")

(***************************************************************************)
(* Directory entries.                                                      *)
(***************************************************************************)
Absent == [kind |-> "absent", data |-> <<>>, readable |-> FALSE,
           locked |-> FALSE]

\* A regular file: its bytes, whether it can be opened for reading, and
\* whether the file system refuses to rename it.
File(data) == [kind |-> "file", data |-> data, readable |-> TRUE,
               locked |-> FALSE]
Unreadable(data) == [File(data) EXCEPT !.readable = FALSE]
Locked(data) == [File(data) EXCEPT !.locked = TRUE]
Dir == [kind |-> "dir", data |-> <<>>, readable |-> FALSE, locked |-> FALSE]
\* A symbolic link whose target does not exist.
Dangling == [kind |-> "dangling", data |-> <<>>, readable |-> FALSE,
             locked |-> FALSE]

GifData == <<71, 73, 70, 56, 57, 97>>
JpegData == <<255, 216, 255, 224>>
PngData == <<137, 80, 78, 71, 13, 10>>
WebpData == <<82, 73, 70, 70, 0, 0, 0, 0, 87, 69, 66, 80>>
BmpData == <<66, 77, 0, 0>>
TiffData == <<73, 73, 42, 0>>
JunkData == <<0, 1>>

\* fs.stat(path) resolves (it follows symbolic links).
StatOk(entry) == entry.kind \in {"file", "dir"}

\* fileStat.isFile()
isFile(entry) == entry.kind = "file"

\* fs.readFile(path) resolves.
ReadOk(entry) == entry.kind = "file" /\ entry.readable

\* fs.rename(from, to) resolves: the source exists and may be moved, and
\* the destination is not a directory (a file or a symbolic link at the
\* destination is replaced).
RenameOk(from, to) ==
    /\ from.kind \in {"file", "dangling"}
    /\ ~from.locked
    /\ to.kind # "dir"

(***************************************************************************)
(* Initial directories.                                                    *)
(***************************************************************************)
InitialOrder ==
    << <<"c", "jpg">>, <<"c", "jpeg">>, <<"c", "png">>, <<"c", "gif">>,
       <<"c", "txt">>,
       <<"s1">>, <<"s2">>, <<"s3">>, <<"s4">>, <<"s5">>, <<"s6">>, <<"s7">>,
       <<"s8">>,
       <<"x", "jpg">>, <<"y", "jpg">>, <<"z", "png">>,
       <<"c", "b", "jpg">>, <<"w", "PNG">>, <<"m", "jpg">>, <<"t", "gif">>,
       <<"l", "jpg">>, <<"", "jpg">> >>

Formats == {"gif", "jpg", "png", "webp", "bmp", "tiff"}
FormatOrder == <<"gif", "jpg", "png", "webp", "bmp", "tiff">>

Range(s) == {s[j] : j \in DOMAIN s}

InitialNames == Range(InitialOrder)

\* Every name a rename can produce from an initial name.
AllNames ==
    InitialNames \cup {replaceExt(n, f) : n \in InitialNames, f \in Formats}

\* The initial names followed by the names renames can produce from them.
Candidates ==
    InitialOrder \o
    [j \in 1..(Len(InitialOrder) * Len(FormatOrder)) |->
        replaceExt(InitialOrder[((j - 1) \div Len(FormatOrder)) + 1],
                   FormatOrder[((j - 1) % Len(FormatOrder)) + 1])]

\* The positions of Candidates at which a name occurs for the first time.
FirstPositions ==
    {j \in DOMAIN Candidates :
        \A m \in 1..(j - 1) : Candidates[m] # Candidates[j]}

\* The order in which readdir lists the names that exist.
NameOrder ==
    [r \in 1..Cardinality(FirstPositions) |->
        Candidates[CHOOSE j \in FirstPositions :
                      Cardinality({m \in FirstPositions : m < j}) = r - 1]]

EmptyDir == [n \in AllNames |-> Absent]

GenNames == {<<"c", "jpg">>, <<"c", "jpeg">>, <<"c", "png">>, <<"c", "gif">>,
             <<"c", "txt">>}

EntryChoices == {File(GifData), File(JpegData), File(PngData), File(JunkData),
                 Unreadable(GifData), Dir, Dangling}

\* Every directory of at most MaxFiles entries with names of GenNames.
GeneratedDirs ==
    {[n \in AllNames |-> IF n \in DOMAIN d THEN d[n] ELSE Absent] :
        d \in UNION {[S -> EntryChoices] :
                        S \in {T \in SUBSET GenNames :
                                  Cardinality(T) <= MaxFiles}}}

\* x.jpg a JPEG, y.jpg a GIF, z.png unreadable.
ScenarioUnreadable ==
    [EmptyDir EXCEPT ![<<"x", "jpg">>] = File(JpegData),
                     ![<<"y", "jpg">>] = File(GifData),
                     ![<<"z", "png">>] = Unreadable(PngData)]

\* Every format, names with several dots, upper case and a leading dot, and
\* a file that cannot be renamed.
ScenarioFormats ==
    [EmptyDir EXCEPT ![<<"c", "b", "jpg">>] = File(GifData),
                     ![<<"w", "PNG">>] = File(WebpData),
                     ![<<"m", "jpg">>] = File(BmpData),
                     ![<<"t", "gif">>] = File(TiffData),
                     ![<<"l", "jpg">>] = Locked(GifData),
                     ![<<"", "jpg">>] = File(GifData)]

\* Twelve entries: two batches; stat fails on the entry s1 of the first.
ScenarioBatches ==
    [n \in AllNames |->
        IF n = <<"s1">> THEN Dangling
        ELSE IF Len(n) = 1 THEN Dir
        ELSE IF n = <<"c", "jpg">> THEN File(PngData)
        ELSE IF n = <<"c", "png">> THEN File(GifData)
        ELSE IF n = <<"x", "jpg">> THEN File(JpegData)
        ELSE IF n = <<"y", "jpg">> THEN File(GifData)
        ELSE Absent]

Directories ==
    GeneratedDirs \cup {ScenarioUnreadable, ScenarioFormats, ScenarioBatches}

(***************************************************************************)
(* processDirectory and main.                                              *)
(***************************************************************************)
batchSize == 10

NoStats == [processed |-> 0, renamed |-> 0, errors |-> 0]

\* readdir(dirPath): the names of the entries, in listing order.
readdir(dir) == SelectSeq(NameOrder, LAMBDA n : dir[n].kind # "absent")

\* files.slice(i, i + batchSize), as listing positions.
Batch(start) ==
    {k \in DOMAIN files : start < k /\ k <= start + batchSize}

\* stats.<counter>++ by the operation of listing position k.
Count(k, counter) ==
    /\ stats' = [stats EXCEPT ![counter] = @ + 1]
    /\ contrib' = [contrib EXCEPT ![k][counter] = @ + 1]

\* The operation of position k returns (or its catch block ends) after
\* emitting the console line `line`.
Finish(k, line) ==
    /\ taskpc' = [taskpc EXCEPT ![k] = "done"]
    /\ log' = [log EXCEPT ![k] = line]

\* Lines 17-58 on an entry: a failed read is caught and yields null.
detectImageFormat(entry) ==
    IF ReadOk(entry) THEN detectBuffer(entry.data) ELSE null

\* Variant of the listing step whose catch block does not count the error.
ReadDirNoCount ==
    /\ pc = "readdir"
    /\ IF listable
       THEN /\ files' = readdir(fs)
            /\ taskpc' = [k \in DOMAIN readdir(fs) |-> "idle"]
            /\ fmt' = [k \in DOMAIN readdir(fs) |-> null]
            /\ contrib' = [k \in DOMAIN readdir(fs) |-> NoStats]
            /\ log' = [k \in DOMAIN readdir(fs) |-> "none"]
            /\ pc' = "loop"
       ELSE /\ pc' = "return"
            /\ UNCHANGED <<files, taskpc, fmt, contrib, log>>
    /\ dir0' = fs
    /\ UNCHANGED <<fs, listable, run, i, stats, exitCode, sniffVars>>

\* Line 78: the listing, or the catch of lines 135-138.
ReadDir ==
    /\ pc = "readdir"
    /\ IF listable
       THEN /\ files' = readdir(fs)
            /\ taskpc' = [k \in DOMAIN readdir(fs) |-> "idle"]
            /\ fmt' = [k \in DOMAIN readdir(fs) |-> null]
            /\ contrib' = [k \in DOMAIN readdir(fs) |-> NoStats]
            /\ log' = [k \in DOMAIN readdir(fs) |-> "none"]
            /\ pc' = "loop"
            /\ UNCHANGED stats
       ELSE /\ stats' = [stats EXCEPT !.errors = @ + 1]
            /\ pc' = "return"
            /\ UNCHANGED <<files, taskpc, fmt, contrib, log>>
    /\ dir0' = fs
    /\ UNCHANGED <<fs, listable, run, i, exitCode, sniffVars>>

\* Variant of the batch start that lists the directory again for every
\* batch.
StartBatchListsAgain ==
    /\ pc = "loop"
    /\ i < Len(files)
    /\ files' = readdir(fs)
    /\ taskpc' = [k \in DOMAIN files |->
                     IF k \in Batch(i) THEN "stat" ELSE taskpc[k]]
    /\ pc' = "await"
    /\ UNCHANGED <<fs, dir0, listable, run, i, fmt, stats, contrib, log,
                   exitCode, sniffVars>>

\* Lines 82-84: the next batch is mapped; every operation of it runs up to
\* its first await.
StartBatch ==
    /\ pc = "loop"
    /\ i < Len(files)
    /\ taskpc' = [k \in DOMAIN files |->
                     IF k \in Batch(i) THEN "stat" ELSE taskpc[k]]
    /\ pc' = "await"
    /\ UNCHANGED <<fs, dir0, listable, run, files, i, fmt, stats, contrib, log,
                   exitCode, sniffVars>>

\* Variant of the stat step that counts the file before the extension filter.
StatFileCountsFirst(k) ==
    /\ taskpc[k] = "stat"
    /\ LET entry == fs[files[k]]
       IN  IF ~StatOk(entry)
           THEN Count(k, "errors") /\ Finish(k, "failed")
           ELSE IF ~isFile(entry)
           THEN Finish(k, "none") /\ UNCHANGED <<stats, contrib>>
           ELSE IF getFileExtension(files[k]) \notin imageExtensions
           THEN Count(k, "processed") /\ Finish(k, "none")
           ELSE /\ Count(k, "processed")
                /\ taskpc' = [taskpc EXCEPT ![k] = "read"]
                /\ UNCHANGED log
    /\ UNCHANGED <<fs, dir0, listable, run, pc, files, i, fmt, exitCode, sniffVars>>

\* Lines 88-97: stat of the entry, the two filters, stats.processed++.
StatFile(k) ==
    /\ taskpc[k] = "stat"
    /\ LET entry == fs[files[k]]
       IN  IF ~StatOk(entry)
           THEN Count(k, "errors") /\ Finish(k, "failed")
           ELSE IF ~isFile(entry)
                   \/ getFileExtension(files[k]) \notin imageExtensions
           THEN Finish(k, "none") /\ UNCHANGED <<stats, contrib>>
           ELSE /\ Count(k, "processed")
                /\ taskpc' = [taskpc EXCEPT ![k] = "read"]
                /\ UNCHANGED log
    /\ UNCHANGED <<fs, dir0, listable, run, pc, files, i, fmt, exitCode, sniffVars>>

\* Variant of the detection step that counts an undetected format as an
\* error.
DetectFormatUnknownIsError(k) ==
    /\ taskpc[k] = "read"
    /\ LET actualFormat == detectImageFormat(fs[files[k]])
       IN  IF actualFormat = null
           THEN Count(k, "errors") /\ Finish(k, "unknown") /\ UNCHANGED fmt
           ELSE IF needsRename(getFileExtension(files[k]), actualFormat)
           THEN /\ taskpc' = [taskpc EXCEPT ![k] = "check"]
                /\ fmt' = [fmt EXCEPT ![k] = actualFormat]
                /\ UNCHANGED <<log, stats, contrib>>
           ELSE /\ Finish(k, "correct")
                /\ fmt' = [fmt EXCEPT ![k] = actualFormat]
                /\ UNCHANGED <<stats, contrib>>
    /\ UNCHANGED <<fs, dir0, listable, run, pc, files, i, exitCode, sniffVars>>

\* Lines 99-110 and 127: the header is read and sniffed, and the rename
\* decision is taken.
DetectFormat(k) ==
    /\ taskpc[k] = "read"
    /\ LET actualFormat == detectImageFormat(fs[files[k]])
       IN  IF actualFormat = null
           THEN Finish(k, "unknown") /\ UNCHANGED fmt
           ELSE IF needsRename(getFileExtension(files[k]), actualFormat)
           THEN /\ taskpc' = [taskpc EXCEPT ![k] = "check"]
                /\ fmt' = [fmt EXCEPT ![k] = actualFormat]
                /\ UNCHANGED log
           ELSE /\ Finish(k, "correct")
                /\ fmt' = [fmt EXCEPT ![k] = actualFormat]
    /\ UNCHANGED <<fs, dir0, listable, run, pc, files, i, stats, contrib, exitCode,
                   sniffVars>>

\* newName of line 111.
newName(k) == replaceExt(files[k], fmt[k])

\* Variant of the existence check that never skips.
CheckTargetNoSkip(k) ==
    /\ taskpc[k] = "check"
    /\ taskpc' = [taskpc EXCEPT ![k] = "rename"]
    /\ UNCHANGED <<fs, dir0, listable, run, pc, files, i, fmt, stats, contrib, log,
                   exitCode, sniffVars>>

\* Lines 115-121: the existence check of the target.
CheckTarget(k) ==
    /\ taskpc[k] = "check"
    /\ IF StatOk(fs[newName(k)])
       THEN Finish(k, "exists")
       ELSE /\ taskpc' = [taskpc EXCEPT ![k] = "rename"]
            /\ UNCHANGED log
    /\ UNCHANGED <<fs, dir0, listable, run, pc, files, i, fmt, stats, contrib,
                   exitCode, sniffVars>>

\* Variant of the rename step without the per-file catch: the rejection
\* rejects Promise.all and is caught at lines 135-138.
RenameFileRejects(k) ==
    /\ taskpc[k] = "rename"
    /\ IF RenameOk(fs[files[k]], fs[newName(k)])
       THEN /\ fs' = [n \in AllNames |->
                         IF n = newName(k) THEN fs[files[k]]
                         ELSE IF n = files[k] THEN Absent
                         ELSE fs[n]]
            /\ Count(k, "renamed")
            /\ Finish(k, "renamed")
            /\ UNCHANGED pc
       ELSE /\ Count(k, "errors")
            /\ Finish(k, "failed")
            /\ pc' = "return"
            /\ UNCHANGED fs
    /\ UNCHANGED <<dir0, listable, run, files, i, fmt, exitCode, sniffVars>>

\* Variant of the rename step that counts the rename before it is performed.
RenameFileCountsFirst(k) ==
    /\ taskpc[k] = "rename"
    /\ IF RenameOk(fs[files[k]], fs[newName(k)])
       THEN /\ fs' = [n \in AllNames |->
                         IF n = newName(k) THEN fs[files[k]]
                         ELSE IF n = files[k] THEN Absent
                         ELSE fs[n]]
            /\ Count(k, "renamed")
            /\ Finish(k, "renamed")
       ELSE /\ stats' = [stats EXCEPT !.renamed = @ + 1, !.errors = @ + 1]
            /\ contrib' = [contrib EXCEPT ![k].renamed = @ + 1,
                                          ![k].errors = @ + 1]
            /\ Finish(k, "failed")
            /\ UNCHANGED fs
    /\ UNCHANGED <<dir0, listable, run, pc, files, i, fmt, exitCode,
                   sniffVars>>

\* Lines 123-125, and the catch of lines 129-132 when rename rejects.
RenameFile(k) ==
    /\ taskpc[k] = "rename"
    /\ IF RenameOk(fs[files[k]], fs[newName(k)])
       THEN /\ fs' = [n \in AllNames |->
                         IF n = newName(k) THEN fs[files[k]]
                         ELSE IF n = files[k] THEN Absent
                         ELSE fs[n]]
            /\ Count(k, "renamed")
            /\ Finish(k, "renamed")
       ELSE /\ Count(k, "errors")
            /\ Finish(k, "failed")
            /\ UNCHANGED fs
    /\ UNCHANGED <<dir0, listable, run, pc, files, i, fmt, exitCode, sniffVars>>

\* Variant of the batch barrier that resolves with the first operation that
\* finishes.
BatchDoneWithFirst ==
    /\ pc = "await"
    /\ \E k \in Batch(i) : taskpc[k] = "done"
    /\ i' = i + batchSize
    /\ pc' = "loop"
    /\ UNCHANGED <<fs, dir0, listable, run, files, taskpc, fmt, stats,
                   contrib, log, exitCode, sniffVars>>

\* Variant of the batch barrier that waits for the operations of the whole
\* listing.
BatchDoneWaitsForListing ==
    /\ pc = "await"
    /\ \A k \in DOMAIN files : taskpc[k] = "done"
    /\ i' = i + batchSize
    /\ pc' = "loop"
    /\ UNCHANGED <<fs, dir0, listable, run, files, taskpc, fmt, stats,
                   contrib, log, exitCode, sniffVars>>

\* Line 84: Promise.all of the batch resolves; line 82: i += batchSize.
BatchDone ==
    /\ pc = "await"
    /\ \A k \in Batch(i) : taskpc[k] = "done"
    /\ i' = i + batchSize
    /\ pc' = "loop"
    /\ UNCHANGED <<fs, dir0, listable, run, files, taskpc, fmt, stats, contrib,
                   log, exitCode, sniffVars>>

\* Line 82: the loop ends; line 140.
LoopExit ==
    /\ pc = "loop"
    /\ i >= Len(files)
    /\ pc' = "return"
    /\ UNCHANGED <<fs, dir0, listable, run, files, i, taskpc, fmt, stats, contrib,
                   log, exitCode, sniffVars>>

\* Lines 154-162: processDirectory has returned its statistics; main prints
\* them and returns, so the promise of main() resolves and the process ends
\* with code 0.  (The handler of lines 166-169 runs only when main() rejects,
\* and nothing in main or processDirectory lets an exception escape.)
MainExit ==
    /\ pc = "return"
    /\ exitCode' = 0
    /\ pc' = "exit"
    /\ UNCHANGED <<fs, dir0, listable, run, files, i, taskpc, fmt, stats, contrib,
                   log, sniffVars>>

\* The script is started again on the directory as the last run left it.
Rerun ==
    /\ pc = "exit"
    /\ run < MaxRuns
    /\ run' = run + 1
    /\ pc' = "readdir"
    /\ files' = <<>>
    /\ i' = 0
    /\ taskpc' = <<>>
    /\ fmt' = <<>>
    /\ stats' = NoStats
    /\ contrib' = <<>>
    /\ log' = <<>>
    /\ exitCode' = -1
    /\ UNCHANGED <<fs, dir0, listable, sniffVars>>

Init ==
    /\ fs \in Directories
    /\ dir0 = fs
    /\ listable \in BOOLEAN
    /\ run = 1
    /\ pc = "readdir"
    /\ files = <<>>
    /\ i = 0
    /\ taskpc = <<>>
    /\ fmt = <<>>
    /\ stats = NoStats
    /\ contrib = <<>>
    /\ log = <<>>
    /\ exitCode = -1
    /\ header = <<>>
    /\ tag = null

Next ==
    \/ ReadDir
    \/ StartBatch
    \/ \E k \in DOMAIN files : StatFile(k)
    \/ \E k \in DOMAIN files : DetectFormat(k)
    \/ \E k \in DOMAIN files : CheckTarget(k)
    \/ \E k \in DOMAIN files : RenameFile(k)
    \/ BatchDone
    \/ LoopExit
    \/ MainExit
    \/ Rerun

Spec == Init /\ [][Next]_vars

\* The steps of one run: every step but the start of another run.
RunStep ==
    \/ ReadDir
    \/ StartBatch
    \/ \E k \in DOMAIN files : StatFile(k)
    \/ \E k \in DOMAIN files : DetectFormat(k)
    \/ \E k \in DOMAIN files : CheckTarget(k)
    \/ \E k \in DOMAIN files : RenameFile(k)
    \/ BatchDone
    \/ LoopExit
    \/ MainExit

\* One run of the script.  The event loop runs a continuation that is ready
\* and every file system call completes: the run does not stop while one of
\* its steps is possible.
FairSpec == Init /\ [][RunStep]_vars /\ WF_vars(RunStep)

(***************************************************************************)
(* The sniffer on its own: detectImageFormat applied to every header built *)
(* byte by byte.                                                           *)
(***************************************************************************)
HeadBytes == {0, 42, 66, 70, 71, 73, 77, 78, 80, 82, 137, 210, 216, 255}
FillBytes == {0}
TailBytes == {66, 69, 80, 87}

\* Headers longer than MaxHead are built for the heads that share the
\* bytes 49 46 of the GIF and RIFF signatures.
NextBytes ==
    IF Len(header) < MaxHead THEN HeadBytes
    ELSE IF At(header, 1) # 73 \/ At(header, 2) # 70 THEN {}
    ELSE IF Len(header) < 8 THEN FillBytes
    ELSE IF Len(header) < 12 THEN TailBytes
    ELSE {}

SniffInit ==
    /\ header = <<>>
    /\ tag = detectBuffer(<<>>)
    /\ fs = EmptyDir
    /\ dir0 = EmptyDir
    /\ listable = FALSE
    /\ run = MaxRuns
    /\ pc = "exit"
    /\ files = <<>>
    /\ i = 0
    /\ taskpc = <<>>
    /\ fmt = <<>>
    /\ stats = NoStats
    /\ contrib = <<>>
    /\ log = <<>>
    /\ exitCode = 0

\* One more byte of the file is in the buffer the detection runs on.
ExtendHeader ==
    /\ \E byte \in NextBytes :
          /\ header' = Append(header, byte)
          /\ tag' = detectBuffer(Append(header, byte))
    /\ UNCHANGED progVars

SniffNext == ExtendHeader

SniffSpec == SniffInit /\ [][SniffNext]_vars

(***************************************************************************)
(* Properties.                                                             *)
(***************************************************************************)
\* The per-file operation of position k takes its step from position `at`.
Leaves(k, at) == taskpc[k] = at /\ taskpc'[k] # at

Only(counter) == [NoStats EXCEPT ![counter] = 1]

\* C1: when the existence check of a file that needs a rename finds an
\* entry at the target path, the operation ends there: no name changes (the
\* source keeps its name, the target stays as it was), and neither renamed
\* nor errors is incremented for the file.
C1_CollisionSkipsRename ==
    [][\A k \in DOMAIN files :
          (Leaves(k, "check") /\ StatOk(fs[newName(k)]))
          => /\ taskpc'[k] = "done"
             /\ log'[k] = "exists"
             /\ fs' = fs
             /\ stats' = stats
             /\ contrib'[k] = Only("processed")]_vars

\* C1 witness: c.jpg holding PNG data was skipped because c.png exists, and
\* both are still there.
C1_Witness ==
    \E k \in DOMAIN files :
        /\ files[k] = <<"c", "jpg">>
        /\ log[k] = "exists"
        /\ fs[<<"c", "jpg">>] = File(PngData)
        /\ newName(k) = <<"c", "png">>
        /\ isFile(fs[<<"c", "png">>])

\* C2: no rename is performed onto a path at which a file exists at the
\* moment of the rename (so no file is overwritten or lost), whatever the
\* interleaving of the per-file operations.
C2_NoRenameOntoExistingFile ==
    [][\A k \in DOMAIN files :
          (Leaves(k, "rename") /\ log'[k] = "renamed")
          => ~isFile(fs[newName(k)])]_vars

\* C3: a file whose header cannot be read adds exactly one to errors, is not
\* reported as an unknown format, and is not renamed.
C3_ReadFailureIsAnError ==
    [][\A k \in DOMAIN files :
          (Leaves(k, "read") /\ ~ReadOk(fs[files[k]]))
          => /\ contrib'[k].errors = 1
             /\ stats'.errors = stats.errors + 1
             /\ log'[k] # "unknown"
             /\ fs' = fs]_vars

\* C4: a second run right after the first renames nothing.
C4_SecondRunRenamesNothing == run >= 2 => stats.renamed = 0

\* C5: the exit code is non-zero when the directory cannot be listed and
\* zero when it can.
C5_ExitCodeTellsListingFailure ==
    pc = "exit" => (exitCode = 0 <=> listable)

\* The extension e agrees with the detected format f: it is the canonical
\* extension of f, or f is JPEG and e is one of its two spellings.
ExtensionMatches(e, f) == e = f \/ (f = "jpg" /\ e \in {"jpg", "jpeg"})

\* C6: for a recognized file with a detected format, a rename is attempted
\* exactly when the lower-cased extension does not agree with the format.
C6_RenameDecision ==
    [][\A k \in DOMAIN files :
          LET e == getFileExtension(files[k])
              f == detectImageFormat(fs[files[k]])
          IN  (Leaves(k, "read") /\ f # null)
              => /\ (taskpc'[k] = "check") <=> ~ExtensionMatches(e, f)
                 /\ (taskpc'[k] = "done" /\ log'[k] = "correct")
                        <=> ExtensionMatches(e, f)]_vars

\* C6 witness: c.jpg holding GIF data has been renamed to c.gif and c.jpeg
\* holding JPEG data was found correct.
C6_Witness ==
    \E k1, k2 \in DOMAIN files :
        /\ files[k1] = <<"c", "jpg">>
        /\ log[k1] = "renamed"
        /\ fs[<<"c", "gif">>] = File(GifData)
        /\ files[k2] = <<"c", "jpeg">>
        /\ log[k2] = "correct"
        /\ fs[<<"c", "jpeg">>] = File(JpegData)

\* C7: a performed rename moves the entry, bytes unchanged, to the name
\* that differs from the old one in its last segment only, and that segment
\* is the canonical extension of the format detected for the file, which is
\* the format of the bytes it holds; no other entry changes.
C7_RenameReplacesOnlyExtension ==
    [][\A k \in DOMAIN files :
          (Leaves(k, "rename") /\ log'[k] = "renamed")
          => \E n \in AllNames :
                /\ n # files[k]
                /\ Len(n) = Len(files[k])
                /\ \A j \in 1..(Len(n) - 1) : n[j] = files[k][j]
                /\ n[Len(n)] = fmt[k]
                /\ fmt[k] = detectBuffer(fs[files[k]].data)
                /\ fs'[n] = fs[files[k]]
                /\ fs'[files[k]] = Absent
                /\ \A m \in AllNames \ {n, files[k]} : fs'[m] = fs[m]]_vars

\* C7 witness: c.b.jpg holding GIF data has become c.b.gif.
C7_Witness ==
    \E k \in DOMAIN files :
        /\ files[k] = <<"c", "b", "jpg">>
        /\ log[k] = "renamed"
        /\ fs[<<"c", "b", "gif">>] = File(GifData)
        /\ fs[<<"c", "b", "jpg">>] = Absent

\* The entry is one processDirectory is to ignore: not a regular file, or a
\* regular file whose lower-cased extension is not an image extension.
Ignorable(name, entry) ==
    /\ entry.kind # "absent"
    /\ ~isFile(entry) \/ getFileExtension(name) \notin imageExtensions

\* C8 as stated: the operation of an ignorable entry ends at its stat step
\* (its header is never read) and changes no counter and no name, also when
\* the stat call fails; and no step renames or replaces the entry.
C8_IgnoredAlsoWhenStatFails ==
    [][/\ \A k \in DOMAIN files :
             (Leaves(k, "stat") /\ Ignorable(files[k], fs[files[k]]))
             => /\ taskpc'[k] = "done"
                /\ stats' = stats
                /\ contrib'[k] = NoStats
                /\ fs' = fs
       /\ \A n \in AllNames :
             (Ignorable(n, fs[n]) /\ StatOk(fs[n])) => fs'[n] = fs[n]]_vars

\* C8 amended: the same for the ignorable entries whose stat call succeeds;
\* the operation of an entry whose stat call fails ends at its stat step
\* too, changes no name, and adds one to errors and nothing else.
C8_IgnoredWhenStatSucceeds ==
    [][/\ \A k \in DOMAIN files :
             (Leaves(k, "stat") /\ Ignorable(files[k], fs[files[k]]))
             => /\ taskpc'[k] = "done"
                /\ fs' = fs
                /\ IF StatOk(fs[files[k]])
                   THEN stats' = stats /\ contrib'[k] = NoStats
                   ELSE /\ stats' = [stats EXCEPT !.errors = @ + 1]
                        /\ contrib'[k] = Only("errors")
       /\ \A n \in AllNames :
             (Ignorable(n, fs[n]) /\ StatOk(fs[n])) => fs'[n] = fs[n]]_vars

\* C8 witness: the run is over; c.txt was ignored without any count and a
\* dangling link has counted one error, both unchanged.
C8_Witness ==
    /\ pc = "exit"
    /\ \E k \in DOMAIN files :
          /\ files[k] = <<"c", "txt">>
          /\ fs[files[k]] = File(GifData)
          /\ taskpc[k] = "done" /\ contrib[k] = NoStats
    /\ \E k \in DOMAIN files :
          /\ fs[files[k]] = Dangling
          /\ taskpc[k] = "done" /\ contrib[k] = Only("errors")

\* C9: a recognized file whose bytes the sniffer does not know is left as
\* it is, and has added one to processed and nothing to renamed or errors.
C9_UnknownFormatUntouched ==
    [][\A k \in DOMAIN files :
          (/\ Leaves(k, "read")
           /\ ReadOk(fs[files[k]])
           /\ detectBuffer(fs[files[k]].data) = null)
          => /\ taskpc'[k] = "done"
             /\ log'[k] = "unknown"
             /\ fs' = fs
             /\ stats' = stats
             /\ contrib'[k] = Only("processed")]_vars

\* C9 witness: c.png holding unknown bytes was processed and is unchanged.
C9_Witness ==
    \E k \in DOMAIN files :
        /\ files[k] = <<"c", "png">>
        /\ log[k] = "unknown"
        /\ fs[<<"c", "png">>] = File(JunkData)
        /\ contrib[k] = Only("processed")
        /\ stats.processed >= 1

\* The signature table of the format sniffer, in priority order: each row
\* is a tag and the alternative byte patterns (offset, bytes) for it.
Signatures ==
    << [tag |-> "gif", alts |-> {{<<0, <<71, 73, 70>> >>}}],
       [tag |-> "jpg", alts |-> {{<<0, <<255, 216, 255>> >>}}],
       [tag |-> "png", alts |-> {{<<0, <<137, 80, 78, 71>> >>}}],
       [tag |-> "webp", alts |-> {{<<0, <<82, 73, 70, 70>> >>,
                                    <<8, <<87, 69, 66, 80>> >>}}],
       [tag |-> "bmp", alts |-> {{<<0, <<66, 77>> >>}}],
       [tag |-> "tiff", alts |-> {{<<0, <<73, 73, 42, 0>> >>},
                                   {<<0, <<77, 77, 0, 42>> >>}}] >>

\* The bytes of `part` stand in the buffer at its offset.
PartMatches(buffer, part) ==
    /\ Len(buffer) >= part[1] + Len(part[2])
    /\ \A j \in 1..Len(part[2]) : buffer[part[1] + j] = part[2][j]

RowMatches(buffer, row) ==
    \E alt \in row.alts : \A part \in alt : PartMatches(buffer, part)

\* The tag of the first row that matches, unknown (null) when none does.
FirstMatch(buffer) ==
    IF \E r \in DOMAIN Signatures : RowMatches(buffer, Signatures[r])
    THEN Signatures[CHOOSE r \in DOMAIN Signatures :
                       /\ RowMatches(buffer, Signatures[r])
                       /\ \A q \in 1..(r - 1) :
                             ~RowMatches(buffer, Signatures[q])].tag
    ELSE null

\* C10: for every buffer the detection returns the tag of the first
\* matching signature of the table, and unknown when none matches.
C10_SnifferFollowsSignatureTable == tag = FirstMatch(header)

\* A call of the per-file operation of position k fails in this step: its
\* stat or its rename rejects (the operation ends in its catch block), or
\* its header read rejects.
FailsIn(k) ==
    \/ taskpc[k] \in {"stat", "rename"} /\ log'[k] = "failed"
    \/ Leaves(k, "read") /\ ~ReadOk(fs[files[k]])

\* C11: a failing per-file operation touches neither the batch loop nor any
\* other operation, and processDirectory returns only when every listed
\* entry's operation has finished.
C11_FailureIsIsolated ==
    /\ [](pc \in {"return", "exit"} /\ listable
            => \A k \in DOMAIN files : taskpc[k] = "done")
    /\ [][\A k \in DOMAIN files :
             FailsIn(k)
             => /\ pc' = pc /\ i' = i /\ files' = files /\ fs' = fs
                /\ taskpc'[k] = "done"
                /\ \A j \in DOMAIN files \ {k} :
                      taskpc'[j] = taskpc[j] /\ log'[j] = log[j]]_vars

\* C11 witness: the run of twelve entries is over; stat failed on an entry
\* of the first batch and a file of the second batch has been renamed.
C11_Witness ==
    /\ pc = "exit"
    /\ Len(files) > batchSize
    /\ \A k \in DOMAIN files : taskpc[k] = "done"
    /\ \E k \in 1..batchSize : log[k] = "failed"
    /\ \E k \in (batchSize + 1)..Len(files) : log[k] = "renamed"

\* C12: when the directory cannot be listed the statistics are processed 0,
\* renamed 0, errors 1, no per-file operation exists (nothing is read) and
\* the directory is as the run found it (nothing is renamed).
C12_ListingFailureCountsOneError ==
    (~listable /\ pc # "readdir")
    => /\ stats = [processed |-> 0, renamed |-> 0, errors |-> 1]
       /\ files = <<>> /\ taskpc = <<>> /\ log = <<>>
       /\ fs = dir0

\* C12 witness: the run on the unlistable directory of x.jpg, y.jpg and
\* z.png has ended with one error.
C12_Witness ==
    /\ ~listable
    /\ pc = "exit"
    /\ stats.errors = 1
    /\ fs = ScenarioUnreadable

\* The per-file operations that have started and not finished.
InFlight == {k \in DOMAIN files : taskpc[k] \notin {"idle", "done"}}

\* C13: at most batchSize operations are in flight, all of the current
\* batch; every operation of an earlier batch has finished and no operation
\* of a later batch has started.
C13_BoundedFanOut ==
    /\ Cardinality(InFlight) <= 10
    /\ InFlight \subseteq Batch(i)
    /\ pc # "await" => InFlight = {}
    /\ \A k \in DOMAIN files :
          /\ k <= i => taskpc[k] = "done"
          /\ k > i + 10 => taskpc[k] = "idle"
          /\ (k > i /\ pc # "await") => taskpc[k] = "idle"

\* C13 witness: an operation of the second batch is in flight, after the
\* ten operations of the first have finished.
C13_Witness ==
    /\ pc = "await"
    /\ i = 10
    /\ \E k \in DOMAIN files : k > 10 /\ taskpc[k] = "rename"
    /\ \A k \in 1..10 : taskpc[k] = "done"

\* The operation of position k has found a regular file with an image
\* extension: it is past its stat step and has not ended there.
Passed(k) ==
    \/ taskpc[k] \in {"read", "check", "rename"}
    \/ log[k] \in {"unknown", "correct", "exists", "renamed"}
    \/ log[k] = "failed" /\ fmt[k] # null

\* The header read of the operation of position k has failed: the file is
\* unreadable and was reported as of unknown format.
ReadFailed(k) == log[k] = "unknown" /\ ~ReadOk(fs[files[k]])

\* C14: when processDirectory returns, processed is the number of listed
\* regular files with an image extension, renamed the number of renames
\* performed and errors the number of per-file operations that failed (in
\* their stat, their header read or their rename).
C14_StatisticsCountEveryOutcome ==
    (listable /\ pc \in {"return", "exit"})
    => /\ stats.processed = Cardinality({k \in DOMAIN files : Passed(k)})
       /\ stats.renamed =
             Cardinality({k \in DOMAIN files : log[k] = "renamed"})
       /\ stats.errors =
             Cardinality({k \in DOMAIN files :
                             log[k] = "failed" \/ ReadFailed(k)})
       /\ \A k \in DOMAIN files :
             (isFile(dir0[files[k]])
              /\ getFileExtension(files[k]) \in imageExtensions)
             => Passed(k)

\* C14, the part on the increments alone: in every state of a run the three
\* counters are the numbers of operations that have reached the matching
\* increment, whatever the interleaving.
CountersMatchIncrements ==
    (listable /\ pc # "readdir")
    => /\ stats.processed = Cardinality({k \in DOMAIN files : Passed(k)})
       /\ stats.renamed =
             Cardinality({k \in DOMAIN files : log[k] = "renamed"})
       /\ stats.errors =
             Cardinality({k \in DOMAIN files : log[k] = "failed"})

\* The per-file operation of lines 85-132 on the entry `name`, run alone
\* from its first to its last step on the directory `d` with the
\* statistics `st`: the directory and the statistics it leaves.
OpOutcome(d, st, name) ==
    LET entry == d[name]
        e == getFileExtension(name)
        f == detectImageFormat(entry)
        target == replaceExt(name, f)
        counted == [st EXCEPT !.processed = @ + 1]
    IN  IF ~StatOk(entry)
        THEN [fs |-> d, stats |-> [st EXCEPT !.errors = @ + 1]]
        ELSE IF ~isFile(entry) \/ e \notin imageExtensions
        THEN [fs |-> d, stats |-> st]
        ELSE IF f = null \/ ~needsRename(e, f)
        THEN [fs |-> d, stats |-> counted]
        ELSE IF StatOk(d[target])
        THEN [fs |-> d, stats |-> counted]
        ELSE IF RenameOk(entry, d[target])
        THEN [fs |-> [n \in AllNames |->
                         IF n = target THEN entry
                         ELSE IF n = name THEN Absent
                         ELSE d[n]],
              stats |-> [counted EXCEPT !.renamed = @ + 1]]
        ELSE [fs |-> d, stats |-> [counted EXCEPT !.errors = @ + 1]]

RECURSIVE InListingOrder(_, _, _)
\* The operations of the entries `names` run one after the other.
InListingOrder(d, st, names) ==
    IF names = <<>> THEN [fs |-> d, stats |-> st]
    ELSE LET one == OpOutcome(d, st, Head(names))
         IN  InListingOrder(one.fs, one.stats, Tail(names))

\* C15: the names, contents and statistics a run ends with do not depend on
\* the interleaving of the per-file operations: they are those of the
\* interleaving that runs the operations one after the other in listing
\* order.
C15_OutcomeIndependentOfInterleaving ==
    (listable /\ pc \in {"return", "exit"})
    => LET inOrder == InListingOrder(dir0, NoStats, files)
       IN  fs = inOrder.fs /\ stats = inOrder.stats

\* Every listing entry has exactly one per-file operation, and it has
\* finished.
AllHandled ==
    /\ DOMAIN taskpc = DOMAIN files
    /\ Cardinality(Range(files)) = Len(files)
    /\ \A k \in DOMAIN files : taskpc[k] = "done"

\* C16: the run completes: processDirectory returns its statistics, main
\* ends, and by then every entry of the listing has been handled by its one
\* operation.
C16_RunTerminates ==
    <>(pc = "exit" /\ (listable => AllHandled))

\* C16 witness: the run on the twelve entries of two batches has completed,
\* with its four image files processed.
C16_Witness ==
    /\ pc = "exit"
    /\ listable
    /\ Len(files) = 12
    /\ AllHandled
    /\ stats.processed = 4

\* C17: every listing entry has added at most one to each counter, never to
\* both renamed and errors, and to renamed only after processed; renamed
\* never exceeds processed, and no counter decreases during a run.
C17_CounterInvariant ==
    /\ [](/\ \A k \in DOMAIN contrib :
                /\ contrib[k].processed \in {0, 1}
                /\ contrib[k].renamed \in {0, 1}
                /\ contrib[k].errors \in {0, 1}
                /\ ~(contrib[k].renamed = 1 /\ contrib[k].errors = 1)
                /\ contrib[k].renamed = 1 => contrib[k].processed = 1
          /\ stats.renamed <= stats.processed)
    /\ [][run' = run
          => /\ stats'.processed >= stats.processed
             /\ stats'.renamed >= stats.renamed
             /\ stats'.errors >= stats.errors
             /\ \A k \in DOMAIN contrib :
                   (pc # "readdir" /\ contrib'[k].renamed > contrib[k].renamed)
                   => contrib[k].processed = 1]_vars

\* C17 witness: a run has ended in which one entry has counted processed and
\* renamed, and another processed and errors (its rename failed).
C17_Witness ==
    /\ pc = "exit"
    /\ \E k1, k2 \in DOMAIN contrib :
          /\ contrib[k1] = [processed |-> 1, renamed |-> 1, errors |-> 0]
          /\ contrib[k2] = [processed |-> 1, renamed |-> 0, errors |-> 1]
    /\ stats.renamed < stats.processed

\* The names the renames of the current run have created.
Created == {newName(k) : k \in {j \in DOMAIN files : log[j] = "renamed"}}

\* The per-file operation of position k takes a step.
Steps(k) == taskpc[k] \notin {"idle", "done"} /\ taskpc'[k] # taskpc[k]

\* The listing of a run is the one its readdir returned.
ListingKept == (pc # "readdir" /\ run' = run) => files' = files

\* No operation renames a file that a rename of the run has put there.
RenamedOnce ==
    \A k \in DOMAIN files :
        (Leaves(k, "rename") /\ log'[k] = "renamed") => files[k] \notin Created

\* C18 as stated: the listing of a run never changes, no per-file operation
\* works on a name that a rename of the run has created, and so no file is
\* renamed twice.
C18_CreatedNameNeverProcessed ==
    [][/\ ListingKept
       /\ RenamedOnce
       /\ \A k \in DOMAIN files : Steps(k) => files[k] \notin Created]_vars

\* C18 amended: the listing of a run never changes and no file is renamed
\* twice; an operation works on a name created by a rename only when the
\* listing held that name for an entry stat does not find (a dangling link
\* the rename has replaced), and it then finds the file correct.
C18_ListingSnapshot ==
    [][/\ ListingKept
       /\ RenamedOnce
       /\ \A k \in DOMAIN files :
             (Steps(k) /\ files[k] \in Created)
             => /\ dir0[files[k]].kind # "absent"
                /\ ~StatOk(dir0[files[k]])
                /\ taskpc'[k] \in {"read", "done"}
                /\ taskpc'[k] = "done" => log'[k] = "correct"]_vars

\* C18 witness: the run is over; c.jpg holding GIF data has become c.gif, a
\* name the listing does not hold and no operation has worked on.
C18_Witness ==
    /\ pc = "exit"
    /\ \E k \in DOMAIN files :
          /\ files[k] = <<"c", "jpg">>
          /\ log[k] = "renamed"
          /\ newName(k) = <<"c", "gif">>
          /\ <<"c", "gif">> \notin Range(files)
          /\ fs[<<"c", "gif">>] = File(GifData)

====
